---- MODULE Spec2Model ----
(***************************************************************************)
(* Steam Market Observer (src/src/index.js): the recurring price update    *)
(* of class SteamMarketObserver.  One asynchronous control flow runs       *)
(* start(), then updateMarketListingsData() from timers; it suspends at    *)
(* every await.  Each action below is one segment of that flow between two *)
(* awaits, or one step of a collaborator (the throttled queue, the remote  *)
(* API, the database, the clock).                                          *)
(*                                                                         *)
(* Time is the epoch clock Date.now() in milliseconds.  It advances by     *)
(* jumping to the next pending deadline (discrete events), up to MaxTime.  *)
(***************************************************************************)
EXTENDS Integers, Sequences, FiniteSets, Bags, TLC

VARIABLES
    now,            \* Date.now()
    pc,             \* what the control flow awaits: "start", "timer" (idle),
                    \* "request", "push", "cooldown", "dead" (startup failed)
    updateInterval, \* this.updateInterval
    appIDs,         \* this.appIDs
    properties,     \* this.config['properties']
    db,             \* this.db: "null", "open" or "closed"
    database,       \* connectToDB: const database, the connection that
                    \* MongoClient.connect opened: "none", "open" or "closed"
    lastUpdate,     \* this.lastUpdate
    lastUpdateFile, \* contents of LAST_UPDATE_INFO_FILE (None: no file)
    timers,         \* pending setTimeout(updateMarketListingsData) callbacks
    active,         \* invocations of updateMarketListingsData in progress
    appIdx,         \* fetchMarketData: position of appID in this.appIDs
    pageIndex,      \* fetchMarketData: let pageIndex
    total,          \* fetchMarketData: let total
    fetched,        \* fetchMarketData: let fetched
    awaited,        \* the request whose response the flow awaits
    page,           \* the parsed page handed to pushToDB
    cooldown,       \* deadline of the 429 cool-down timer
    queue,          \* this.queue: calls submitted and not yet dispatched
    qLast,          \* this.queue: when it last dispatched a call
    net,            \* fetch() calls in flight
    stored,         \* the MongoDB collection: a bag of documents
    calls,          \* observation: times of the last two fetch() calls
    sent,           \* observation: the request of the last fetch() call
    throttled,      \* observation: the last 429 and the locals it met
    outcome,        \* observation: how the last fetch pass settled
    got,            \* observation: the response fetchMarketData received last
    thrown,         \* observation: the error that ended the fetch pass
    event,          \* observation: what the control flow did last
    upserted,       \* observation: per identifier, the items of the pages
                    \* whose bulk.execute() succeeded in this fetch pass
    counted         \* observation: fetched after the last page was counted

locals == <<appIdx, pageIndex, total, fetched>>
cfgVars == <<updateInterval, appIDs, properties, db, database>>
vars == <<now, pc, updateInterval, appIDs, properties, db, database, lastUpdate,
          lastUpdateFile, timers, active, appIdx, pageIndex, total, fetched,
          awaited, page, cooldown, queue, qLast, net, stored, calls, sent,
          throttled, outcome, got, thrown, event, upserted, counted>>

(***************************************************************************)
(* Program constants.                                                      *)
(***************************************************************************)
REQUEST_INTERVAL == 10000
REQUEST_COOL_DOWN == 30000
PAGE_SIZE == 100
ITEM_PROPERTIES == <<"appid", "name", "icon_url", "sell_listings", "classid", "instanceid">>

(***************************************************************************)
(* Bounds of the model and the inputs it enumerates.                       *)
(***************************************************************************)
MaxTime == 200000
MaxPages == 3

None == 0 - 1
Undefined == "undefined"
\* No request, no page, no 429 met.
NoRequest == [appid |-> None, start |-> None, count |-> None]
NoPage == [success |-> FALSE, total_count |-> 0, n |-> 0, price |-> 0, shape |-> "top"]
NoThrottle == [t |-> None, req |-> NoRequest, fetched |-> None, pageIndex |-> None,
               total |-> None]
\* No response in hand, no error thrown.
NoResponse == [status |-> None, body |-> "none", page |-> NoPage]
NoError == [msg |-> "none", page |-> None, status |-> None]

\* Date.now() when the process starts.
StartTimes == {100000}
\* Contents of the watermark file at startup: none, never run, one interval
\* old, recent.
WatermarkFiles == {None, 0, 60000, 85000}
\* config.json as loadConfig reads it.
Configs ==
    { [updateInterval |-> 40000, apps |-> <<578080, 730>>, properties |-> <<"name">>],
      [updateInterval |-> 40000, apps |-> <<>>, properties |-> <<"name">>] }
\* Round-trip times of one API call.
Latencies == {5000}
\* What the remote API answers.
Statuses == {200, 429, 500}
TotalCounts == {0, 150, 250}
ResultLens == {0, 50, 100}
Prices == {1}
Shapes == {"nested"}
\* Number of distinct listings per app in the remote catalogue.
CatalogueSize == 2
\* Inputs of pushToDB taken alone: the whitelists of config.json, and the
\* pages (app, offset, length, price, shape of the items).
Whitelists == {<<>>, <<"name">>, <<"name", "app_name">>}
PushApps == {730}
PushStarts == {0, 1}
PushLens == {1, 3}
PushPrices == {1, 2}
PushShapes == {"top", "nested"}

Min(S) == CHOOSE x \in S : \A y \in S : x <= y
Max(S) == CHOOSE x \in S : \A y \in S : x >= y

(***************************************************************************)
(* The remote catalogue: what a page of an app holds.  A listing carries   *)
(* hash_name, sell_price, its top-level fields and asset_description.      *)
(***************************************************************************)
Props == {ITEM_PROPERTIES[i] : i \in 1..Len(ITEM_PROPERTIES)}
\* The fields a listing of the remote API carries besides hash_name and
\* sell_price: the ones ITEM_PROPERTIES names, and others (app_name).
ItemFields == Props \cup {"app_name"}

\* The listing at position pos of appid's catalogue.  Shape "top": every
\* field is present at the top level (and in asset_description); "nested":
\* only in asset_description.
Item(appid, pos, price, shape) ==
    [hash_name |-> <<appid, pos % CatalogueSize>>,
     sell_price |-> price,
     fields |-> [p \in ItemFields |-> IF shape = "top" THEN <<p, "top">> ELSE Undefined],
     asset_description |-> [p \in ItemFields |-> <<p, "nested">>]]

\* page['results'] of the page that starts at offset start and holds n items.
Results(appid, start, n, price, shape) ==
    [i \in 1..n |-> Item(appid, start + i - 1, price, shape)]

(***************************************************************************)
(* pushToDB: the batch of upserts of one page.                             *)
(***************************************************************************)
\* this.config['properties'].includes(prop)
Includes(list, prop) == \E i \in 1..Len(list) : list[i] = prop

ResolveNested(item, prop) == item.asset_description[prop]

\* item[prop] !== undefined ? item[prop] : item['asset_description'][prop]
Resolve(item, prop) ==
    IF item.fields[prop] # Undefined THEN item.fields[prop]
    ELSE item.asset_description[prop]

ToSetAll(item, whitelist) ==
    [f \in {"sell_price"} \cup Props |->
        IF f = "sell_price" THEN item.sell_price ELSE Resolve(item, f)]

\* let toSet = {sell_price: ...}; plus every whitelisted property
ToSet(item, whitelist) ==
    [f \in {"sell_price"} \cup {p \in Props : Includes(whitelist, p)} |->
        IF f = "sell_price" THEN item.sell_price ELSE Resolve(item, f)]

\* collection.find({hash_name: key}): the documents that match.
Find(store, key) == {d \in BagToSet(store) : d["hash_name"] = key}

\* The hash_names that have a document.
Keys(store) == {d["hash_name"] : d \in BagToSet(store)}

\* The update {$set: toSet} applied to the document old.
Set(old, toSet) ==
    [f \in DOMAIN old \cup DOMAIN toSet |->
        IF f \in DOMAIN toSet THEN toSet[f] ELSE old[f]]

UpdateOneInsert(store, key, toSet) ==
    store (+) SetToBag({Set([f \in {"hash_name"} |-> key], toSet)})

\* bulk.find({hash_name}).upsert().updateOne({$set: toSet}) applied to a
\* store: the first document that matches is updated; when none matches, a
\* document made of the query and the update is inserted.
UpdateOne(store, key, toSet) ==
    LET found == Find(store, key)
    IN IF found # {}
       THEN LET old == CHOOSE d \in found : TRUE
            IN (store (-) SetToBag({old})) (+) SetToBag({Set(old, toSet)})
       ELSE store (+) SetToBag({Set([f \in {"hash_name"} |-> key], toSet)})

\* The operations of items whose index is in ops, applied one after another.
RECURSIVE UpdateEach(_, _, _, _)
UpdateEach(store, ops, items, whitelist) ==
    IF ops = {} THEN store
    ELSE LET i == Min(ops)
         IN UpdateEach(UpdateOne(store, items[i].hash_name, ToSet(items[i], whitelist)),
                       ops \ {i}, items, whitelist)

\* bulk.execute(): the operations of the batch built from items whose
\* index is in applied take effect on store.  Every operation of a
\* hash_name sets the same fields of the same document, so the last such
\* operation decides them and the ones before it are not replayed.
Execute(store, items, whitelist, applied) ==
    LET keys == {items[i].hash_name : i \in applied}
        last(k) == Max({i \in applied : items[i].hash_name = k})
    IN UpdateEach(store, {last(k) : k \in keys}, items, whitelist)

\* pushToDB(items) when bulk.execute() succeeds
pushToDB(store, items, whitelist) ==
    Execute(store, items, whitelist, 1..Len(items))

\* The operations of an unordered batch of n that may have taken effect when
\* bulk.execute() fails: none, one, all but the last.
PartialSets(n) == {S \in {{}, {1}, 1..(n - 1)} : S \subseteq 1..n}

(***************************************************************************)
Init ==
    /\ now \in StartTimes
    /\ pc = "start"
    /\ updateInterval = 0
    /\ appIDs = <<>>
    /\ properties = <<>>
    /\ db = "null"
    /\ database = "none"
    /\ lastUpdate = 0
    /\ lastUpdateFile \in WatermarkFiles
    /\ timers = <<>>
    /\ active = 0
    /\ appIdx = None /\ pageIndex = None /\ total = None /\ fetched = None
    /\ awaited = NoRequest
    /\ page = NoPage
    /\ cooldown = None
    /\ queue = <<>>
    /\ qLast = None
    /\ net = {}
    /\ stored = EmptyBag
    /\ calls = <<None, None>>
    /\ sent = NoRequest
    /\ throttled = NoThrottle
    /\ outcome = "none"
    /\ got = NoResponse
    /\ thrown = NoError
    /\ event = "none"
    /\ upserted = <<>>
    /\ counted = None

(***************************************************************************)
(* Pieces of the control flow.  Each states the part of the next state     *)
(* that the code from that point on decides, up to the next await.         *)
(* a: the invocations of updateMarketListingsData in progress, this one    *)
(* included; tm: the timers pending.                                       *)
(***************************************************************************)
\* fetch(url): the HTTP call leaves now and is answered lat later.
Fetch(req, lat) ==
    /\ net' = net \cup {[req |-> req, due |-> now + lat]}
    /\ calls' = <<calls[2], now>>
    /\ sent' = req

\* The URL of a page request: appid, start, count.
Request(appid, start) == [appid |-> appid, start |-> start, count |-> PAGE_SIZE]

IssueRequestDirect(appid, start) ==
    /\ \E lat \in Latencies : Fetch(Request(appid, start), lat)
    /\ awaited' = Request(appid, start)
    /\ UNCHANGED <<queue, qLast>>

\* await this.queue.resolve(() => fetch(...&appid=..&start=..&count=PAGE_SIZE))
IssueRequest(appid, start) ==
    /\ queue' = Append(queue, Request(appid, start))
    /\ awaited' = Request(appid, start)
    /\ UNCHANGED <<qLast, net, calls, sent>>

\* setTimeout(this.updateMarketListingsData.bind(this), delay)
SetTimeout(tm, delay) == Append(tm, [due |-> now + delay, delay |-> delay])

\* writeLastUpdateTime: a failed write is logged and swallowed
writeLastUpdateTime(value) ==
    \E written \in BOOLEAN :
        lastUpdateFile' = IF written THEN value ELSE lastUpdateFile

\* The locals of fetchMarketData go out of scope.
Leave ==
    /\ appIdx' = None /\ pageIndex' = None /\ total' = None /\ fetched' = None
    /\ awaited' = NoRequest
    /\ pc' = "timer"
    /\ UNCHANGED <<queue, qLast, calls, sent>>

CompleteWriteThrows(a, tm) ==
    /\ lastUpdate' = now
    /\ \E written \in BOOLEAN :
          /\ lastUpdateFile' = IF written THEN now ELSE lastUpdateFile
          /\ outcome' = IF written THEN "ok" ELSE "err"
    /\ timers' = SetTimeout(tm, updateInterval)
    /\ active' = a - 1
    /\ Leave
    /\ UNCHANGED net

\* updateMarketListingsData after fetchMarketData returned: the watermark,
\* then the next timer.
Complete(a, tm) ==
    /\ lastUpdate' = now
    /\ writeLastUpdateTime(now)
    /\ timers' = SetTimeout(tm, updateInterval)
    /\ active' = a - 1
    /\ outcome' = "ok"
    /\ Leave
    /\ UNCHANGED net

FetchAppCarried(idx, a, tm) ==
    /\ appIdx' = idx
    /\ pageIndex' = IF pageIndex = None THEN 1 ELSE pageIndex
    /\ total' = IF total = None THEN 1 ELSE total
    /\ fetched' = IF fetched = None THEN 0 ELSE fetched
    /\ IssueRequest(appIDs[idx], IF fetched = None THEN 0 ELSE fetched)
    /\ pc' = "request"
    /\ active' = a
    /\ timers' = tm
    /\ UNCHANGED <<lastUpdate, lastUpdateFile, outcome>>

\* fetchMarketData: the body of the for loop entered for the idx-th appID.
FetchApp(idx, a, tm) ==
    /\ appIdx' = idx
    /\ pageIndex' = 1
    /\ total' = 1
    /\ fetched' = 0
    /\ IssueRequest(appIDs[idx], 0)
    /\ pc' = "request"
    /\ active' = a
    /\ timers' = tm
    /\ UNCHANGED <<lastUpdate, lastUpdateFile, outcome>>

FailStamped(a, tm) ==
    /\ lastUpdate' = now
    /\ writeLastUpdateTime(now)
    /\ timers' = SetTimeout(tm, updateInterval)
    /\ active' = a - 1
    /\ outcome' = "err"
    /\ Leave

FailIsolated(a, tm) ==
    IF appIdx < Len(appIDs)
    THEN FetchApp(appIdx + 1, a, tm)
    ELSE /\ timers' = SetTimeout(tm, updateInterval)
         /\ active' = a - 1
         /\ outcome' = "err"
         /\ Leave
         /\ UNCHANGED <<lastUpdate, lastUpdateFile>>

FailRetrySoon(a, tm) ==
    /\ timers' = SetTimeout(tm, REQUEST_COOL_DOWN)
    /\ active' = a - 1
    /\ outcome' = "err"
    /\ Leave
    /\ UNCHANGED <<lastUpdate, lastUpdateFile>>

FailNoRearm(a, tm) ==
    /\ timers' = tm
    /\ active' = a - 1
    /\ outcome' = "err"
    /\ Leave
    /\ UNCHANGED <<lastUpdate, lastUpdateFile>>

\* updateMarketListingsData when fetchMarketData threw: the catch branch,
\* then the next timer.
Fail(a, tm) ==
    /\ timers' = SetTimeout(tm, updateInterval)
    /\ active' = a - 1
    /\ outcome' = "err"
    /\ Leave
    /\ UNCHANGED <<lastUpdate, lastUpdateFile>>

\* fetchMarketData: the for loop at its idx-th iteration (idx may be past
\* the last appID, which ends the loop and the fetch pass).
ForApps(idx, a, tm) ==
    IF idx <= Len(appIDs) THEN FetchApp(idx, a, tm) ELSE Complete(a, tm)

WhileInclusive(pi, t, f) ==
    IF f <= t
    THEN /\ pageIndex' = pi /\ total' = t /\ fetched' = f
         /\ IssueRequest(appIDs[appIdx], f)
         /\ pc' = "request"
         /\ UNCHANGED <<appIdx, lastUpdate, lastUpdateFile, timers, active, outcome>>
    ELSE ForApps(appIdx + 1, active, timers)

WhileByPage(pi, t, f) ==
    IF f < t
    THEN /\ pageIndex' = pi /\ total' = t /\ fetched' = f
         /\ IssueRequest(appIDs[appIdx], (pi - 1) * PAGE_SIZE)
         /\ pc' = "request"
         /\ UNCHANGED <<appIdx, lastUpdate, lastUpdateFile, timers, active, outcome>>
    ELSE ForApps(appIdx + 1, active, timers)

\* fetchMarketData: `while (fetched < total)` reached with these locals.
While(pi, t, f) ==
    IF f < t
    THEN /\ pageIndex' = pi /\ total' = t /\ fetched' = f
         /\ IssueRequest(appIDs[appIdx], f)
         /\ pc' = "request"
         /\ UNCHANGED <<appIdx, lastUpdate, lastUpdateFile, timers, active, outcome>>
    ELSE ForApps(appIdx + 1, active, timers)

CountedByPageSize(results) ==
    LET f == fetched + PAGE_SIZE
    IN /\ counted' = f
       /\ While(pageIndex + 1, total, f)

CountedNothing(results) ==
    /\ counted' = fetched
    /\ While(pageIndex + 1, total, fetched)

CountedStopOnEmpty(results) ==
    LET f == fetched + Len(results)
    IN /\ counted' = f
       /\ IF Len(results) = 0
          THEN ForApps(appIdx + 1, active, timers)
          ELSE While(pageIndex + 1, total, f)

\* fetchMarketData after pushToDB: `fetched += results.length; ++pageIndex`
\* and the loop condition.
Counted(results) ==
    LET f == fetched + Len(results)
    IN /\ counted' = f
       /\ While(pageIndex + 1, total, f)

TooManyRequestsRearm ==
    /\ cooldown' = now + REQUEST_COOL_DOWN
    /\ pc' = "cooldown"
    /\ timers' = SetTimeout(timers, updateInterval)
    /\ UNCHANGED <<locals, awaited, page, active, outcome, lastUpdate,
                   lastUpdateFile, queue, qLast, calls, sent>>

TooManyRequestsShort ==
    /\ cooldown' = now + REQUEST_INTERVAL
    /\ pc' = "cooldown"
    /\ UNCHANGED <<locals, awaited, page, timers, active, outcome, lastUpdate,
                   lastUpdateFile, queue, qLast, calls, sent>>

\* fetchMarketData on status 429: warn, then
\* `await new Promise(resolve => setTimeout(resolve, REQUEST_COOL_DOWN))`
TooManyRequests ==
    /\ cooldown' = now + REQUEST_COOL_DOWN
    /\ pc' = "cooldown"
    /\ UNCHANGED <<locals, awaited, page, timers, active, outcome, lastUpdate,
                   lastUpdateFile, queue, qLast, calls, sent>>

PageReceivedCounted(body) ==
    /\ total' = body.total_count
    /\ fetched' = fetched + body.n
    /\ page' = body
    /\ pc' = "push"
    /\ UNCHANGED <<appIdx, pageIndex, awaited, cooldown, timers, active,
                   outcome, lastUpdate, lastUpdateFile, queue, qLast, calls, sent>>

PageReceivedClamped(body) ==
    /\ total' = Max({total, body.total_count})
    /\ page' = body
    /\ pc' = "push"
    /\ UNCHANGED <<appIdx, pageIndex, fetched, awaited, cooldown, timers, active,
                   outcome, lastUpdate, lastUpdateFile, queue, qLast, calls, sent>>

\* fetchMarketData on a page that parsed and succeeded: total is adjusted
\* and pushToDB(results) is awaited.
PageReceived(body) ==
    /\ total' = body.total_count
    /\ page' = body
    /\ pc' = "push"
    /\ UNCHANGED <<appIdx, pageIndex, fetched, awaited, cooldown, timers, active,
                   outcome, lastUpdate, lastUpdateFile, queue, qLast, calls, sent>>

updateMarketListingsDataRearmFirst(tm) ==
    ForApps(1, active + 1, SetTimeout(tm, updateInterval))

\* updateMarketListingsData from its first line.
updateMarketListingsData(tm) == ForApps(1, active + 1, tm)

RunNowStrict(delta) == delta > updateInterval

\* start(): `delta >= this.updateInterval`
RunNow(delta) == delta >= updateInterval

\* start(): the delay of the first timer, `this.updateInterval - delta`
FirstDelay(delta) == updateInterval - delta

(***************************************************************************)
(* Actions.                                                                *)
(***************************************************************************)
\* start() up to `await this.connectToDB()`: loadConfig, readLastUpdateTime.
start ==
    /\ pc = "start"
    /\ \E cfg \in Configs, loaded \in BOOLEAN :
        IF loaded
        THEN /\ updateInterval' = cfg.updateInterval
             /\ appIDs' = cfg.apps
             /\ properties' = cfg.properties
             /\ lastUpdate' = IF lastUpdateFile = None THEN 0 ELSE lastUpdateFile
             /\ lastUpdateFile' = IF lastUpdateFile = None THEN 0 ELSE lastUpdateFile
             /\ pc' = "connect"
        ELSE /\ pc' = "dead"
             /\ UNCHANGED <<updateInterval, appIDs, properties, lastUpdate, lastUpdateFile>>
    /\ UNCHANGED <<now, db, database, timers, active, locals, awaited, page,
                   cooldown, queue, qLast, net, stored, calls, sent, throttled,
                   outcome, got, thrown, event, upserted, counted>>

\* start() once connectToDB settled: the first run or the first timer.
\* connectToDB may throw at each of its three statements: "refused" (the
\* connection is not made), "unnamed" (database.db(...) throws with the
\* connection made), "broken" (this.db.collection(...) throws with this.db
\* set).  The catch of start() closes this.db if it is set.
connected ==
    /\ pc = "connect"
    /\ \E result \in {"open", "refused", "unnamed", "broken"} :
        CASE result = "refused" ->
                /\ pc' = "dead"
                /\ event' = "error"
                /\ UNCHANGED <<db, database, timers, active, locals, awaited,
                               lastUpdate, lastUpdateFile, queue, qLast, net, calls,
                               sent, outcome, upserted>>
          [] result = "unnamed" ->
                /\ pc' = "dead"
                /\ database' = "open"
                /\ event' = "error"
                /\ UNCHANGED <<db, timers, active, locals, awaited, lastUpdate,
                               lastUpdateFile, queue, qLast, net, calls, sent, outcome,
                               upserted>>
          [] result = "broken" ->
                /\ pc' = "dead"
                /\ db' = "closed"
                /\ database' = "closed"
                /\ event' = "error"
                /\ UNCHANGED <<timers, active, locals, awaited, lastUpdate,
                               lastUpdateFile, queue, qLast, net, calls, sent, outcome,
                               upserted>>
          [] OTHER ->
                /\ db' = "open"
                /\ database' = "open"
                /\ LET delta == now - lastUpdate
                   IN IF RunNow(delta)
                      THEN /\ updateMarketListingsData(timers)
                           /\ upserted' = [i \in 1..Len(appIDs) |-> 0]
                           /\ event' = "begin"
                      ELSE /\ timers' = SetTimeout(timers, FirstDelay(delta))
                           /\ pc' = "timer"
                           /\ event' = "wait"
                           /\ UNCHANGED <<active, locals, awaited, lastUpdate,
                                          lastUpdateFile, queue, qLast, net, calls,
                                          sent, outcome, upserted>>
    /\ UNCHANGED <<now, updateInterval, appIDs, properties, page, cooldown,
                   stored, throttled, got, thrown, counted>>

\* A timer set for updateMarketListingsData fires.  The model follows one
\* fetch pass; a pass started while another is in progress is only counted.
TimerFire ==
    \E i \in 1..Len(timers) :
        /\ timers[i].due <= now
        /\ LET rest == [j \in 1..(Len(timers) - 1) |->
                            IF j < i THEN timers[j] ELSE timers[j + 1]]
           IN IF active = 0
              THEN /\ updateMarketListingsData(rest)
                   /\ got' = NoResponse
                   /\ thrown' = NoError
                   /\ upserted' = [j \in 1..Len(appIDs) |-> 0]
              ELSE /\ active' = active + 1
                   /\ timers' = rest
                   /\ UNCHANGED <<pc, locals, awaited, lastUpdate, lastUpdateFile,
                                  queue, qLast, net, calls, sent, outcome, got, thrown,
                                  upserted>>
        /\ event' = "begin"
        /\ UNCHANGED <<now, cfgVars, page, cooldown, stored, throttled, counted>>

\* The throttled queue starts its oldest pending call, REQUEST_INTERVAL or
\* more after the call it started before.
Dispatch ==
    /\ queue # <<>>
    /\ qLast = None \/ now >= qLast + REQUEST_INTERVAL
    /\ \E lat \in Latencies : Fetch(Head(queue), lat)
    /\ queue' = Tail(queue)
    /\ qLast' = now
    /\ UNCHANGED <<now, pc, cfgVars, lastUpdate, lastUpdateFile, timers, active,
                   locals, awaited, page, cooldown, stored, throttled, outcome,
                   got, thrown, event, upserted, counted>>

\* What the remote API may answer: a status and a body: none worth reading
\* (the status is not 200), empty ({} or null), invalid (response.json()
\* rejects), or a page (success, total_count, results).  NoPage fills the
\* page of an answer that carries none; its success flag is false.
PageBodies ==
    [success : {TRUE}, total_count : TotalCounts, n : ResultLens,
     price : Prices, shape : Shapes]
    \cup {NoPage}
Responses ==
    [status : Statuses \ {200}, body : {"none"}, page : {NoPage}]
    \cup [status : {200}, body : {"empty", "invalid"}, page : {NoPage}]
    \cup [status : {200}, body : {"page"}, page : PageBodies]

ThrowsOnStatusOnly(resp) == resp.status # 200

\* fetchMarketData throws on this response: the status is not 200, the body
\* does not parse or is empty, or the page's success flag is not set.
Throws(resp) ==
    \/ resp.status # 200
    \/ resp.body # "page"
    \/ ~resp.page.success

\* The error fetchMarketData throws on resp while at page pi.
FetchError(resp, pi) ==
    CASE resp.status # 200 ->
            [msg |-> "response code", page |-> pi, status |-> resp.status]
      [] resp.status = 200 /\ resp.body = "invalid" ->
            [msg |-> "invalid json", page |-> None, status |-> None]
      [] resp.status = 200 /\ resp.body = "empty" ->
            [msg |-> "Response is empty", page |-> None, status |-> None]
      [] OTHER ->
            [msg |-> "Unable to fetch page", page |-> pi, status |-> None]

\* fetchMarketData resumes with the response of the awaited request: the
\* status, the body, the page's success flag and total_count, then pushToDB
\* is called with the page's results.
Respond ==
    /\ pc = "request"
    /\ \E r \in net, resp \in Responses :
        /\ r.due <= now
        /\ r.req = awaited
        /\ net' = net \ {r}
        /\ got' = resp
        /\ CASE resp.status = 429 ->
                  /\ TooManyRequests
                  /\ event' = "throttled"
                  /\ throttled' = [t |-> now, req |-> awaited, fetched |-> fetched,
                                   pageIndex |-> pageIndex, total |-> total]
                  /\ UNCHANGED thrown
             [] resp.status # 429 /\ Throws(resp) ->
                  /\ Fail(active, timers)
                  /\ event' = "error"
                  /\ thrown' = FetchError(resp, pageIndex)
                  /\ throttled' = NoThrottle
                  /\ UNCHANGED <<page, cooldown>>
             [] OTHER ->
                  /\ pageIndex <= MaxPages
                  /\ PageReceived(resp.page)
                  /\ event' = "page"
                  /\ throttled' = NoThrottle
                  /\ UNCHANGED thrown
    /\ UNCHANGED <<now, cfgVars, stored, upserted, counted>>

\* `await this.pushToDB(results)` settles: on success fetched and pageIndex
\* advance and the loop condition is tested; on failure the error reaches
\* updateMarketListingsData.
PushDone ==
    /\ pc = "push"
    /\ LET results == Results(awaited.appid, awaited.start, page.n, page.price,
                              page.shape)
       IN \E ok \in BOOLEAN :
            IF ok
            THEN /\ stored' = pushToDB(stored, results, properties)
                 /\ upserted' = [upserted EXCEPT ![appIdx] = @ + Len(results)]
                 /\ Counted(results)
                 /\ event' = "pushed"
                 /\ UNCHANGED thrown
            ELSE /\ \E S \in PartialSets(Len(results)) :
                        stored' = Execute(stored, results, properties, S)
                 /\ Fail(active, timers)
                 /\ event' = "error"
                 /\ thrown' = [msg |-> "bulk write", page |-> None, status |-> None]
                 /\ UNCHANGED <<net, upserted, counted>>
    /\ page' = NoPage
    /\ UNCHANGED <<now, cfgVars, cooldown, throttled, got>>

\* The cool-down timer of a 429 fires: `continue` tests the loop condition.
CooldownFire ==
    /\ pc = "cooldown"
    /\ cooldown <= now
    /\ cooldown' = None
    /\ While(pageIndex, total, fetched)
    /\ event' = "retry"
    /\ UNCHANGED <<now, cfgVars, page, stored, throttled, got, thrown, upserted, counted>>

\* The deadlines pending: timers, the cool-down, answers, the queue's slot.
Deadlines ==
    {timers[i].due : i \in 1..Len(timers)}
    \cup (IF pc = "cooldown" THEN {cooldown} ELSE {})
    \cup {r.due : r \in net}
    \cup (IF queue # <<>> /\ qLast # None THEN {qLast + REQUEST_INTERVAL} ELSE {})

\* Time passes up to the next deadline, when nothing can run now.
Advance ==
    /\ pc \notin {"start", "connect", "push", "dead"}
    /\ ~(queue # <<>> /\ qLast = None)
    /\ Deadlines # {}
    /\ \A d \in Deadlines : d > now
    /\ Min(Deadlines) <= MaxTime
    /\ now' = Min(Deadlines)
    /\ UNCHANGED <<pc, cfgVars, lastUpdate, lastUpdateFile, timers, active, locals,
                   awaited, page, cooldown, queue, qLast, net, stored, calls, sent,
                   throttled, outcome, got, thrown, event, upserted, counted>>

Next ==
    \/ start
    \/ connected
    \/ TimerFire
    \/ Dispatch
    \/ Respond
    \/ PushDone
    \/ CooldownFire
    \/ Advance

Spec == Init /\ [][Next]_vars

\* A timer that is due fires, and the queue dispatches a call that is due.
FairSpec ==
    /\ Spec
    /\ WF_vars(Advance)
    /\ WF_vars(TimerFire)
    /\ WF_vars(Dispatch)

(***************************************************************************)
(* pushToDB taken alone: a process connected to the database receives      *)
(* pages and upserts them; it is stopped and started again with another    *)
(* whitelist in config.json.  pageIndex counts the pages as fetchMarketData *)
(* does.                                                                   *)
(***************************************************************************)
PushInit ==
    /\ now \in StartTimes
    /\ pc = "request"
    /\ updateInterval = 0
    /\ appIDs = <<>>
    /\ properties \in Whitelists
    /\ db = "open"
    /\ database = "open"
    /\ lastUpdate = 0
    /\ lastUpdateFile = 0
    /\ timers = <<>>
    /\ active = 1
    /\ appIdx = None /\ pageIndex = 1 /\ total = None /\ fetched = None
    /\ awaited = NoRequest
    /\ page = NoPage
    /\ cooldown = None
    /\ queue = <<>>
    /\ qLast = None
    /\ net = {}
    /\ stored = EmptyBag
    /\ calls = <<None, None>>
    /\ sent = NoRequest
    /\ throttled = NoThrottle
    /\ outcome = "none"
    /\ got = NoResponse
    /\ thrown = NoError
    /\ event = "none"
    /\ upserted = <<>>
    /\ counted = None

\* The process is started again with another whitelist.
PushConfigure ==
    /\ pc = "request"
    /\ \E w \in Whitelists : w # properties /\ properties' = w
    /\ event' = "begin"
    /\ UNCHANGED <<now, pc, updateInterval, appIDs, db, database, lastUpdate,
                   lastUpdateFile, timers, active, locals, awaited, page, cooldown,
                   queue, qLast, net, stored, calls, sent, throttled, outcome, got,
                   thrown, upserted, counted>>

\* A page has been received: pushToDB is called with its results.
PushPage ==
    /\ pc = "request"
    /\ pageIndex <= MaxPages
    /\ \E appid \in PushApps, offset \in PushStarts, n \in PushLens,
          price \in PushPrices, shape \in PushShapes :
        /\ awaited' = Request(appid, offset)
        /\ page' = [success |-> TRUE, total_count |-> offset + n, n |-> n,
                    price |-> price, shape |-> shape]
    /\ pc' = "push"
    /\ event' = "page"
    /\ UNCHANGED <<now, cfgVars, lastUpdate, lastUpdateFile, timers, active, locals,
                   cooldown, queue, qLast, net, stored, calls, sent, throttled,
                   outcome, got, thrown, upserted, counted>>

\* pushToDB settles: every operation took effect, or bulk.execute() failed
\* with some of them applied.
PushUpsert ==
    /\ pc = "push"
    /\ LET results == Results(awaited.appid, awaited.start, page.n, page.price,
                              page.shape)
       IN \E ok \in BOOLEAN :
            IF ok
            THEN /\ stored' = pushToDB(stored, results, properties)
                 /\ pageIndex' = pageIndex + 1
                 /\ event' = "pushed"
            ELSE /\ \E S \in PartialSets(Len(results)) :
                        stored' = Execute(stored, results, properties, S)
                 /\ event' = "error"
                 /\ UNCHANGED pageIndex
    /\ pc' = "request"
    /\ UNCHANGED <<now, cfgVars, lastUpdate, lastUpdateFile, timers, active, appIdx,
                   total, fetched, awaited, page, cooldown, queue, qLast, net, calls,
                   sent, throttled, outcome, got, thrown, upserted, counted>>

PushNext ==
    \/ PushConfigure
    \/ PushPage
    \/ PushUpsert

PushSpec == PushInit /\ [][PushNext]_vars

(***************************************************************************)
(* Properties.                                                             *)
(***************************************************************************)
\* A fetch pass is in progress.
Running == pc \in {"request", "push", "cooldown"}
\* The step ends a fetch pass: one that was in progress, or one that the
\* step itself starts (no identifier is configured).
Settles ==
    \/ Running /\ pc' = "timer"
    \/ ~Running /\ event' = "begin" /\ pc' = "timer" /\ now' = now

\* C1: a 429 response leaves fetched, pageIndex and total as they were, no
\* request is pending during the cool-down, and the request issued after it
\* is the one that was answered 429 (same appid, same start), issued and
\* sent REQUEST_COOL_DOWN or more after the 429.
C1_ThrottledRetry ==
    throttled # NoThrottle =>
        /\ pc \in {"cooldown", "request"}
        /\ fetched = throttled.fetched
        /\ pageIndex = throttled.pageIndex
        /\ total = throttled.total
        /\ pc = "cooldown" => queue = <<>> /\ net = {}
        /\ pc = "request" =>
              /\ awaited = throttled.req
              /\ awaited.start = fetched
              /\ now >= throttled.t + REQUEST_COOL_DOWN
              /\ queue = <<>> => /\ sent = throttled.req
                                 /\ calls[2] >= throttled.t + REQUEST_COOL_DOWN

\* C1 witness: page 2 (offset 100) was answered 429 and has been sent again.
C1_Witness ==
    /\ throttled # NoThrottle
    /\ pc = "request"
    /\ queue = <<>>
    /\ throttled.req.start = 100
    /\ throttled.pageIndex = 2
    /\ sent = throttled.req
    /\ calls[2] >= throttled.t + REQUEST_COOL_DOWN

C3_Original ==
    [][ /\ (Settles /\ event' # "error") =>
              /\ outcome' = "ok"
              /\ lastUpdate' = now
              /\ lastUpdateFile' = now
              /\ timers' = <<[due |-> now + updateInterval, delay |-> updateInterval]>>
        /\ (Settles /\ event' = "error") =>
              /\ outcome' = "err"
              /\ UNCHANGED <<lastUpdate, lastUpdateFile>>
        /\ (~Settles /\ pc # "start") => UNCHANGED <<lastUpdate, lastUpdateFile>>
      ]_vars

\* C3 (amended): as C3, but the persisted watermark is set to the current
\* time only if the write succeeds; otherwise it keeps its previous value.
C3_Watermark ==
    [][ /\ (Settles /\ event' # "error") =>
              /\ outcome' = "ok"
              /\ lastUpdate' = now
              /\ lastUpdateFile' \in {now, lastUpdateFile}
              /\ timers' = <<[due |-> now + updateInterval, delay |-> updateInterval]>>
        /\ (Settles /\ event' = "error") =>
              /\ outcome' = "err"
              /\ UNCHANGED <<lastUpdate, lastUpdateFile>>
        /\ (~Settles /\ pc # "start") => UNCHANGED <<lastUpdate, lastUpdateFile>>
      ]_vars

\* C3 witness: a pass completed and the watermark, in memory and persisted,
\* is the time at which the pending timer was armed.
C3_Witness ==
    /\ pc = "timer"
    /\ outcome = "ok"
    /\ Len(timers) = 1
    /\ lastUpdate = timers[1].due - timers[1].delay
    /\ lastUpdateFile = lastUpdate
    /\ lastUpdate > Min(StartTimes)

\* C4: the step in which a fetch pass meets a fetch or persistence error
\* ends the pass: the flow is idle, no request is pending or in flight (none
\* is issued for a later identifier), the watermark is unchanged and one
\* timer is armed for updateInterval; and no step removes a stored document.
C4_FailFast ==
    [][ /\ (Running /\ event' = "error") =>
              /\ pc' = "timer"
              /\ active' = 0
              /\ queue' = <<>> /\ net' = {}
              /\ UNCHANGED <<lastUpdate, lastUpdateFile>>
              /\ timers' = <<[due |-> now + updateInterval, delay |-> updateInterval]>>
        /\ pc' = "timer" => queue' = <<>> /\ net' = {}
        /\ Keys(stored) \subseteq Keys(stored')
      ]_vars

\* C4 witness: the second identifier failed with the first one's documents
\* stored.
C4_Witness ==
    /\ pc = "timer"
    /\ event = "error"
    /\ outcome = "err"
    /\ sent.appid = appIDs[2]
    /\ <<appIDs[1], 0>> \in Keys(stored)
    /\ <<appIDs[2], 0>> \notin Keys(stored)

\* C5: the step that ends a fetch pass, by success or by failure, leaves
\* exactly one timer pending, due updateInterval after that step.
C5_FullInterval ==
    [][ Settles =>
            timers' = <<[due |-> now + updateInterval, delay |-> updateInterval]>>
      ]_vars

\* C5 witness: a pass whose last identifier took three pages completed.
C5_Witness ==
    /\ pc = "timer"
    /\ outcome = "ok"
    /\ event = "pushed"
    /\ counted = 250
    /\ timers = <<[due |-> now + updateInterval, delay |-> updateInterval]>>

\* C6: once the database is connected, with delta = now - lastUpdate: if
\* delta >= updateInterval the first pass starts in that step and no timer
\* is armed; otherwise one timer of updateInterval - delta is armed and no
\* pass starts.  With lastUpdate = 0 the first pass starts at once.
C6_Startup ==
    [][ (pc = "connect" /\ pc' # "dead" /\ Len(appIDs) > 0) =>
            LET delta == now - lastUpdate
            IN /\ IF delta >= updateInterval
                  THEN /\ timers' = <<>>
                       /\ active' = 1
                       /\ pc' = "request"
                       /\ queue' = <<Request(appIDs[1], 0)>>
                  ELSE /\ timers' = <<[due |-> now + (updateInterval - delta),
                                       delay |-> updateInterval - delta]>>
                       /\ active' = 0
                       /\ pc' = "timer"
                       /\ queue' = <<>>
               /\ lastUpdate = 0 => pc' = "request" /\ timers' = <<>>
      ]_vars

\* C6 witness: a recent watermark: the first timer is shorter than the
\* interval by the watermark's age.
C6_Witness ==
    /\ pc = "timer"
    /\ event = "wait"
    /\ Len(timers) = 1
    /\ timers[1].delay > 0
    /\ timers[1].delay < updateInterval
    /\ timers[1].delay = updateInterval - (now - lastUpdate)

\* C7: after a fetch pass that ended with an error (and whose timer is due
\* within the model's horizon), another pass starts.
C7_SelfHealing ==
    (pc = "timer" /\ outcome = "err" /\ now + updateInterval <= MaxTime)
        ~> (pc = "request" /\ event = "begin")

\* C7 witness: a pass has started after a pass that failed.
C7_Witness ==
    /\ pc = "request"
    /\ event = "begin"
    /\ outcome = "err"

\* Waiting: one timer armed and no fetch in progress.
Waiting == pc = "timer" /\ Len(timers) = 1 /\ active = 0 /\ queue = <<>> /\ net = {}
\* One fetch pass in progress and no timer armed.
RunningOne == Running /\ active = 1 /\ timers = <<>>

C8_State ==
    pc \notin {"start", "connect", "dead"} =>
        /\ Waiting \/ RunningOne
        /\ ~(Waiting /\ RunningOne)
        /\ active <= 1

\* C8: after a successful startup the scheduler is either Waiting or Running,
\* never both and never more than one pass; a timer that fires starts
\* exactly one pass and leaves no timer behind.
C8_TwoStates ==
    [][ /\ C8_State'
        /\ Len(timers') < Len(timers) =>
              /\ active = 0 /\ active' = 1
              /\ timers' = <<>>
              /\ pc' = "request"
      ]_vars

\* C8 witness: a pass started by a timer is in its cool-down: Running with a
\* cool-down pending and no timer of the scheduler armed.
C8_Witness ==
    /\ pc = "cooldown"
    /\ outcome # "none"
    /\ active = 1
    /\ timers = <<>>

\* C9: two consecutive fetch() calls are never less than REQUEST_INTERVAL
\* apart, and every fetch() call is one the queue dispatched.
C9_Spacing ==
    /\ calls[1] # None => calls[2] - calls[1] >= REQUEST_INTERVAL
    /\ calls[2] = qLast
    /\ \A r \in net : r.req = sent

\* C9 witness: the queue held a request back until REQUEST_INTERVAL after the
\* call before it.
C9_Witness ==
    /\ calls[1] # None
    /\ calls[2] = calls[1] + REQUEST_INTERVAL
    /\ qLast = calls[2]
    /\ sent.start = 100

PageResults == Results(awaited.appid, awaited.start, page.n, page.price, page.shape)
\* The step is a pushToDB whose batch took effect in full.
Pushes == pc = "push" /\ event' = "pushed"
\* Every hash_name has one document.
Unique(store) ==
    \A d \in BagToSet(store) :
        /\ CopiesIn(d, store) = 1
        /\ \A e \in BagToSet(store) : e["hash_name"] = d["hash_name"] => e = d

\* C11: after any sequence of pushToDB calls (also failed ones) no two
\* documents have the same hash_name; a pushToDB leaves exactly one document
\* for each item's hash_name, adds no other key, and carries the item's
\* sell_price; and pushing the same items again changes nothing.
C11_OneDocument ==
    /\ []Unique(stored)
    /\ [][ Pushes =>
              /\ \A i \in 1..Len(PageResults) :
                    /\ Cardinality(Find(stored', PageResults[i].hash_name)) = 1
                    /\ \A d \in Find(stored', PageResults[i].hash_name) :
                          d["sell_price"] = PageResults[i].sell_price
              /\ Keys(stored') =
                    Keys(stored) \cup {PageResults[i].hash_name : i \in 1..Len(PageResults)}
              /\ pushToDB(stored', PageResults, properties) = stored'
         ]_vars

\* C11 witness: two pages were pushed and the collection holds one document:
\* the second page ingested the first one's hash_name again.
C11_Witness ==
    /\ event = "pushed"
    /\ pageIndex = 3
    /\ BagCardinality(stored) = 1
    /\ \A d \in BagToSet(stored) : d["sell_price"] = page.price

\* The fields an upsert may write under the whitelist.
Writable(whitelist) == {"sell_price"} \cup {p \in Props : Includes(whitelist, p)}

\* C12: a step of pushToDB (complete or failed) leaves every field of every
\* document that is neither sell_price nor whitelisted as it was, and a
\* document it inserts has hash_name, sell_price and whitelisted fields only.
C12_Frame ==
    [][ pc = "push" =>
            /\ \A d \in BagToSet(stored) :
                  \E e \in Find(stored', d["hash_name"]) :
                      /\ DOMAIN e \subseteq DOMAIN d \cup Writable(properties)
                      /\ \A f \in DOMAIN d \ Writable(properties) :
                            f \in DOMAIN e /\ e[f] = d[f]
            /\ \A e \in BagToSet(stored') :
                  Find(stored, e["hash_name"]) = {} =>
                      DOMAIN e = {"hash_name"} \cup Writable(properties)
      ]_vars

\* C12 witness: with an empty whitelist a document's price was overwritten
\* and the name written under an earlier whitelist is still there.
C12_Witness ==
    /\ event = "pushed"
    /\ properties = <<>>
    /\ page.price = 2
    /\ page.shape = "top"
    /\ \E d \in Find(stored, <<awaited.appid, awaited.start % CatalogueSize>>) :
          /\ d["sell_price"] = 2
          /\ "name" \in DOMAIN d
          /\ d["name"] = <<"name", "nested">>

\* The names config.properties lists.
Listed(whitelist) == {whitelist[j] : j \in 1..Len(whitelist)}

\* C13 (original): after pushToDB the document of every item holds the
\* item's sell_price and, for every field of the whitelist, the item's
\* top-level value if it has one and else the value of its
\* asset_description.
C13_Original ==
    [][ Pushes =>
            \A i \in 1..Len(PageResults) :
                LET item == PageResults[i]
                IN \A d \in Find(stored', item.hash_name) :
                      /\ d["sell_price"] = item.sell_price
                      /\ \A p \in Listed(properties) :
                            /\ p \in DOMAIN d
                            /\ d[p] = IF page.shape = "top"
                                      THEN <<p, "top">>
                                      ELSE item.asset_description[p]
      ]_vars

\* C13 (amended): as C13 for the whitelisted fields that ITEM_PROPERTIES
\* names; a whitelisted field it does not name is not written.  With
\* whitelist <<"name">> and no top-level name the stored name is the nested
\* one.
C13_FieldSet ==
    [][ Pushes =>
            \A i \in 1..Len(PageResults) :
                LET item == PageResults[i]
                IN \A d \in Find(stored', item.hash_name) :
                      /\ d["sell_price"] = item.sell_price
                      /\ \A p \in Listed(properties) \cap Props :
                            /\ p \in DOMAIN d
                            /\ d[p] = IF page.shape = "top"
                                      THEN <<p, "top">>
                                      ELSE item.asset_description[p]
                      /\ \A p \in Listed(properties) \ Props :
                            p \in DOMAIN d =>
                                \E e \in Find(stored, item.hash_name) :
                                    p \in DOMAIN e /\ e[p] = d[p]
                      /\ (properties = <<"name">> /\ page.shape = "nested") =>
                            d["name"] = <<"name", "nested">>
      ]_vars

\* C13 witness: whitelist <<"name">>, an item without a top-level name: the
\* stored name is the one of asset_description.
C13_Witness ==
    /\ event = "pushed"
    /\ properties = <<"name">>
    /\ page.shape = "nested"
    /\ \E d \in Find(stored, <<awaited.appid, awaited.start % CatalogueSize>>) :
          /\ d["name"] = <<"name", "nested">>
          /\ d["sell_price"] = page.price

\* C14: once startup has failed no fetch pass runs, no timer is armed, no
\* request is pending, and no connection to the database is left open.
C14_Fatal ==
    pc = "dead" =>
        /\ timers = <<>>
        /\ active = 0
        /\ queue = <<>> /\ net = {}
        /\ database # "open"

\* C14, without the connection: once startup has failed no fetch pass runs,
\* no timer is armed, and a handle that this.db holds is closed.
C14_NoCycle ==
    pc = "dead" =>
        /\ timers = <<>>
        /\ active = 0
        /\ queue = <<>> /\ net = {}
        /\ db # "open"

\* The step goes on with the same identifier by issuing a request.
NextPage == pc' = "request" /\ appIdx' = appIdx

\* C15: a page that parsed and succeeded sets total to its total_count,
\* whatever total was; after its upsert the loop goes on with the same
\* identifier exactly if fetched < total for that total, and otherwise the
\* identifier ends without an error; no other step changes total.
C15_Total ==
    [][ /\ (pc = "request" /\ event' = "page") =>
              /\ total' = got'.page.total_count
              /\ page' = got'.page
        /\ Pushes =>
              /\ total = page.total_count
              /\ NextPage <=> counted' < total
              /\ NextPage => total' = total
              /\ ~NextPage =>
                    /\ event' # "error" /\ thrown' = NoError
                    /\ \/ pc' = "request" /\ appIdx' = appIdx + 1
                       \/ pc' = "timer" /\ outcome' = "ok"
        /\ (Running /\ NextPage /\ event' # "page") => total' = total
      ]_vars

\* C15 witness: the first identifier ended as a success on a page whose
\* total_count (0) was below the 150 items fetched, after a page whose
\* total_count was above it; the second identifier has begun.
C15_Witness ==
    /\ pc = "request"
    /\ event = "pushed"
    /\ appIdx = 2
    /\ pageIndex = 1
    /\ counted = 150
    /\ got.page.total_count = 0
    /\ outcome # "err"

\* The step issues a request.
Issues == Len(queue') > Len(queue)

\* C16 (original): identifiers are taken in configuration order, one request
\* at a time; each request starts at fetched; and the request that follows
\* a page of the same identifier starts at a strictly greater offset.
C16_Original ==
    [][ /\ (appIdx' # appIdx /\ appIdx' # None) =>
              \/ appIdx = None /\ appIdx' = 1
              \/ appIdx' = appIdx + 1 /\ event' = "pushed"
        /\ Issues =>
              /\ queue' = <<awaited'>> /\ net' = {}
              /\ awaited' = Request(appIDs[appIdx'], fetched')
              /\ (appIdx' = appIdx /\ event' = "pushed") =>
                    awaited'.start > awaited.start
      ]_vars

\* C16 (amended): as C16, but the request that follows a page of the same
\* identifier starts at the page's offset plus the number of items of the
\* page: strictly greater only if the page held an item; the request after
\* a cool-down repeats the offset.
C16_Order ==
    [][ /\ (appIdx' # appIdx /\ appIdx' # None) =>
              \/ appIdx = None /\ appIdx' = 1
              \/ appIdx' = appIdx + 1 /\ event' = "pushed"
        /\ Issues =>
              /\ queue' = <<awaited'>> /\ net' = {}
              /\ awaited' = Request(appIDs[appIdx'], fetched')
              /\ (appIdx' = appIdx /\ event' = "pushed") =>
                    /\ awaited'.start = awaited.start + page.n
                    /\ page.n > 0 => awaited'.start > awaited.start
              /\ (appIdx' = appIdx /\ event' = "retry") =>
                    awaited'.start = awaited.start
      ]_vars

\* C16 witness: the second identifier is at its second page, at offset 50,
\* after the first identifier's fetch ended.
C16_Witness ==
    /\ pc = "request"
    /\ appIdx = 2
    /\ pageIndex = 2
    /\ awaited = Request(appIDs[2], 50)
    /\ sent = awaited
    /\ <<appIDs[1], 0>> \in Keys(stored)

\* C17: the step that enters an identifier, in any pass, sets fetched = 0,
\* total = 1 and pageIndex = 1 and issues the request of offset 0; the step
\* that ends a pass discards them.
C17_FreshProgress ==
    [][ /\ (appIdx' # appIdx /\ appIdx' # None) =>
              /\ fetched' = 0 /\ total' = 1 /\ pageIndex' = 1
              /\ awaited' = Request(appIDs[appIdx'], 0)
              /\ queue' = <<Request(appIDs[appIdx'], 0)>>
        /\ appIdx' = None =>
              fetched' = None /\ total' = None /\ pageIndex' = None
      ]_vars

\* C17 witness: in the pass after a failed one the second identifier begins
\* at offset 0 after the first one fetched 250 items.
C17_Witness ==
    /\ pc = "request"
    /\ outcome = "err"
    /\ appIdx = 2
    /\ counted = 250
    /\ fetched = 0 /\ total = 1 /\ pageIndex = 1
    /\ awaited = Request(appIDs[2], 0)

\* The step takes the response of the awaited request.
Receives == pc = "request" /\ net' # net /\ net' \subseteq net

\* A response that is no page to upsert and no 429.
Unusable(resp) ==
    \/ resp.status \notin {200, 429}
    \/ resp.status = 200 /\ (resp.body \in {"empty", "invalid"} \/ ~resp.page.success)

\* C18: a response whose status is neither 200 nor 429, or whose body is
\* empty or does not parse, or whose page is not successful, ends the fetch
\* pass with an error in the step that takes it: nothing is upserted, no
\* item is counted, no request is issued; the error of a status carries the
\* page index and the status.
C18_FetchError ==
    [][ Receives =>
            /\ Unusable(got') =>
                  /\ event' = "error" /\ outcome' = "err" /\ pc' = "timer"
                  /\ thrown' # NoError
                  /\ stored' = stored
                  /\ counted' = counted /\ fetched' = None
                  /\ queue' = <<>> /\ net' = {}
            /\ got'.status \notin {200, 429} =>
                  thrown' = [msg |-> "response code", page |-> pageIndex,
                             status |-> got'.status]
            /\ (got'.status = 200 /\ ~Unusable(got')) => event' = "page"
      ]_vars

\* C18 witness: the second page was answered 500: the error names page 2 and
\* status 500, and the pass is over with the first page's items stored.
C18_Witness ==
    /\ pc = "timer"
    /\ event = "error"
    /\ got.status = 500
    /\ thrown = [msg |-> "response code", page |-> 2, status |-> 500]
    /\ counted = 100
    /\ Keys(stored) # {}

\* The step in which fetchMarketData returns.
Returns ==
    \/ Running /\ pc' = "timer" /\ event' = "pushed"
    \/ ~Running /\ pc' = "timer" /\ event' = "begin"

\* C19: when fetchMarketData returns, whether or not the watermark file is
\* then written, the pass counts as a success: no error is recorded,
\* lastUpdate is the current time and one timer is armed for updateInterval.
C19_SaveSwallowed ==
    [][ Returns =>
            /\ outcome' = "ok"
            /\ thrown' = NoError
            /\ lastUpdate' = now
            /\ lastUpdateFile' \in {now, lastUpdateFile}
            /\ timers' = <<[due |-> now + updateInterval, delay |-> updateInterval]>>
      ]_vars

\* C19 witness: a pass fetched its pages and its watermark was not saved: the file
\* holds an older time than lastUpdate, and the next timer is armed.
C19_Witness ==
    /\ pc = "timer"
    /\ event = "pushed"
    /\ outcome = "ok"
    /\ thrown = NoError
    /\ lastUpdateFile < lastUpdate
    /\ timers = <<[due |-> lastUpdate + updateInterval, delay |-> updateInterval]>>

\* C20: when the upsert of a page without items settles while total_count
\* is above fetched, the same offset is requested again with pageIndex one
\* higher, at any pageIndex: fetched and total stay, no error is recorded
\* and no timer is armed.
C20_EmptyPage ==
    [][ (Pushes /\ page.n = 0 /\ page.total_count > fetched) =>
            /\ NextPage
            /\ fetched' = fetched /\ total' = total
            /\ pageIndex' = pageIndex + 1
            /\ awaited' = awaited
            /\ queue' = <<awaited>>
            /\ outcome' = outcome /\ thrown' = NoError
            /\ timers' = <<>>
      ]_vars

\* C20 witness: two pages without items in a row: the third request of
\* offset 0 is pending.
C20_Witness ==
    /\ pc = "request"
    /\ event = "pushed"
    /\ pageIndex = 3
    /\ fetched = 0
    /\ got.page.n = 0
    /\ got.page.total_count > 0
    /\ awaited.start = 0

\* ceil(t / PAGE_SIZE)
Ceil(t) == (t + PAGE_SIZE - 1) \div PAGE_SIZE

\* The page in hand is the next of a run of full pages and is itself full
\* or the last one of its total_count.
RegularPage ==
    /\ fetched = (pageIndex - 1) * PAGE_SIZE
    /\ page.n = Min({PAGE_SIZE, page.total_count - fetched})

\* The response taken is a page that follows full pages of the same
\* total_count.
RegularReceipt ==
    /\ pc = "request" /\ event' = "page"
    /\ fetched = (pageIndex - 1) * PAGE_SIZE
    /\ pageIndex > 1 => total = got'.page.total_count

\* What C21 says of the pages, with `last` the number of requests it gives
\* for a total_count.
RegularRun(last(_)) ==
        /\ RegularReceipt => pageIndex <= last(got'.page.total_count)
        /\ (Pushes /\ RegularPage) =>
              /\ awaited.start = (pageIndex - 1) * PAGE_SIZE
              /\ counted' = Min({pageIndex * PAGE_SIZE, page.total_count})
              /\ IF pageIndex * PAGE_SIZE < page.total_count
                 THEN /\ NextPage
                      /\ pageIndex' = pageIndex + 1
                      /\ awaited'.start = pageIndex * PAGE_SIZE
                 ELSE /\ ~NextPage
                      /\ event' # "error"
                      /\ pageIndex = last(page.total_count)
        /\ (Pushes /\ RegularPage /\ page.total_count = 250) =>
              <<pageIndex, awaited.start, counted'>> \in
                  {<<1, 0, 100>>, <<2, PAGE_SIZE, 200>>, <<3, 2 * PAGE_SIZE, 250>>}

\* C21 (original): with a constant total_count T and every page full but
\* possibly the last, the k-th request that is not throttled starts at
\* (k - 1) * PAGE_SIZE, fetched becomes min(k * PAGE_SIZE, T), and the
\* identifier ends after request ceil(T / PAGE_SIZE) exactly; for T = 250:
\* offsets 0, 100, 200 and fetched 100, 200, 250.
C21_Original == [][RegularRun(Ceil)]_vars

\* The requests of a total_count: at least the one that reports it.
Pages(t) == Max({1, Ceil(t)})

\* C21 (amended): as C21, with max(1, ceil(T / PAGE_SIZE)) requests: one
\* request is issued also when T = 0.
C21_Pages == [][RegularRun(Pages)]_vars

\* C21 witness: an identifier of total_count 250 ended after its third page,
\* requested at offset 200, with 250 items fetched.
C21_Witness ==
    /\ pc = "request"
    /\ event = "pushed"
    /\ appIdx = 2
    /\ pageIndex = 1
    /\ counted = 250
    /\ got.page.total_count = 250
    /\ got.page.n = 50
    /\ sent = Request(appIDs[1], 2 * PAGE_SIZE)

\* The largest total_count the remote API reports.
MaxTotal == Max(TotalCounts)

\* C22: a fetch in progress is never stuck (a step is enabled, up to the
\* horizon of the clock); a response ends the pass, or starts a cool-down
\* that leaves the progress alone, or hands a page to pushToDB; and a page
\* that holds an item whenever its total_count is above fetched either ends
\* the identifier or leaves fetched strictly greater and below a total that
\* is at most the largest total_count: the pages of an identifier are at
\* most that many.
C22_Terminates ==
    /\ [](Running => (ENABLED Next \/ (Deadlines # {} /\ Min(Deadlines) > MaxTime)))
    /\ [](pc = "request" => (fetched >= 0 /\ fetched < total /\ (pageIndex > 1 => total <= MaxTotal)))
    /\ [][ /\ Receives =>
                 \/ event' = "error" /\ pc' = "timer"
                 \/ event' = "throttled" /\ pc' = "cooldown"
                       /\ cooldown' = now + REQUEST_COOL_DOWN
                       /\ UNCHANGED locals
                 \/ event' = "page" /\ pc' = "push" /\ total' <= MaxTotal
           /\ (pc = "cooldown" /\ pc' # "cooldown") =>
                 /\ NextPage /\ UNCHANGED locals
           /\ pc = "push" =>
                 \/ event' = "error" /\ pc' = "timer"
                 \/ event' = "pushed"
           /\ (Pushes /\ (page.total_count > fetched => page.n >= 1)) =>
                 \/ ~NextPage
                 \/ /\ fetched' > fetched
                    /\ fetched' < total'
                    /\ total' <= MaxTotal
                    /\ pageIndex' = pageIndex + 1
         ]_vars

\* C22 witness: an identifier ended with its third page after a cool-down,
\* each page holding items.
C22_Witness ==
    /\ pc = "request"
    /\ event = "pushed"
    /\ appIdx = 2
    /\ pageIndex = 1
    /\ counted = 200
    /\ got.page.n = 50
    /\ now >= Min(StartTimes) + REQUEST_COOL_DOWN + 3 * REQUEST_INTERVAL

\* C23: while pushToDB is awaited no request is pending or in flight and
\* fetched is what it was when the page was requested; at every request of
\* an identifier fetched, and the offset requested, equal the number of
\* items of the identifier's pages whose batch was executed with success in
\* this pass; a batch that fails ends the pass: its page is not counted and
\* no request follows it.
C23_AwaitedUpsert ==
    /\ [](pc = "push" =>
            /\ queue = <<>> /\ net = {}
            /\ fetched = upserted[appIdx]
            /\ awaited.start = fetched)
    /\ [](pc \in {"request", "cooldown"} =>
            /\ fetched = upserted[appIdx]
            /\ awaited.start = upserted[appIdx])
    /\ [][ (pc = "push" /\ event' = "error") =>
              /\ pc' = "timer"
              /\ queue' = <<>> /\ net' = {}
              /\ upserted' = upserted
              /\ counted' = counted
         ]_vars

\* C23 witness: the second identifier requests offset 150 after a page of
\* 100 and a page of 50 were upserted for it, the first identifier's 250
\* items before them.
C23_Witness ==
    /\ pc = "request"
    /\ appIdx = 2
    /\ pageIndex = 3
    /\ upserted = <<250, 150>>
    /\ fetched = 150
    /\ awaited.start = 150

\* C24: a 429, after any number of them, starts a cool-down of
\* REQUEST_COOL_DOWN which ends in a request, and changes nothing else: no
\* error, no progress, no upsert; and as long as the fetch pass is in
\* progress it is the only one, no timer is armed, and no step but the one
\* that settles it arms a timer, changes the watermark, raises an error or
\* changes the number of passes begun and not settled.
C24_NeverEscalates ==
    /\ [](Running => (timers = <<>> /\ active = 1))
    /\ [][ /\ (Receives /\ got'.status = 429) =>
                 /\ event' = "throttled"
                 /\ pc' = "cooldown"
                 /\ cooldown' = now + REQUEST_COOL_DOWN
                 /\ UNCHANGED <<locals, awaited, stored, upserted, counted, outcome,
                                thrown, timers, active, lastUpdate, lastUpdateFile>>
           /\ (pc = "cooldown" /\ pc' # "cooldown") =>
                 /\ pc' = "request"
                 /\ queue' = <<awaited>>
                 /\ UNCHANGED <<locals, awaited>>
           /\ (Running /\ ~Settles) =>
                 /\ timers' = <<>>
                 /\ UNCHANGED <<lastUpdate, lastUpdateFile, active, outcome, thrown>>
         ]_vars

\* C24 witness: the first request of the first pass was answered 429 three
\* times in a row: the pass is in its third cool-down with nothing fetched,
\* no error, no timer armed and the watermark as it was read.
C24_Witness ==
    /\ pc = "cooldown"
    /\ outcome = "none"
    /\ got.status = 429
    /\ appIdx = 1 /\ pageIndex = 1 /\ fetched = 0
    /\ now >= Min(StartTimes) + 2 * REQUEST_COOL_DOWN + 3 * Min(Latencies)
    /\ timers = <<>>
    /\ lastUpdate = lastUpdateFile
    /\ thrown = NoError

====
